---- MODULE Spec2Model ----
(***************************************************************************)
(* A model of cli/bin/diffgen.js: the interactive changelog generator.     *)
(*                                                                         *)
(* One process run of main() is a linear pipeline                          *)
(*   ensureGitRepository -> mode prompt -> selectBy{Tags,Commits,TimeRange} *)
(*   -> collectGitHistoryText -> callAzureOpenAI -> write CHANGELOG         *)
(*   -> createDocsifySite -> serveDocsify.                                  *)
(* The file system outlives the process, so the model lets the tool be     *)
(* started again (Restart) and lets the user edit index.html in between.   *)
(*                                                                         *)
(* Environment: git, the prompt toolkit, the date parser and the HTTP      *)
(* service are external.  Each call returns a value of its documented      *)
(* result type, chosen nondeterministically; an infrastructure failure of  *)
(* the call itself (no network, disk full) is outside the model.           *)
(***************************************************************************)
EXTENDS Integers, Sequences, FiniteSets, TLC

(***************************************************************************)
(* Bounds of the model.                                                    *)
(***************************************************************************)
MaxCommits == 2     \* longest linear history
MaxTextLen == 2     \* longest output of a history query, in characters

(***************************************************************************)
(* Program constants.                                                      *)
(***************************************************************************)
LogLimit == 100     \* gitInstance.log({ maxCount: 100 })

(***************************************************************************)
(* Text.  A text is a sequence of characters; "a" stands for any           *)
(* non-whitespace character and " " for any whitespace character.          *)
(***************************************************************************)
Chars == {"a", " "}

IsSpace(c) == c = " "

TextsUpTo(n) == UNION {[1..k -> Chars] : k \in 0..n}

RECURSIVE TrimStart(_)
TrimStart(t) ==
  IF t # <<>> /\ IsSpace(Head(t)) THEN TrimStart(Tail(t)) ELSE t

RECURSIVE TrimEnd(_)
TrimEnd(t) ==
  IF t # <<>> /\ IsSpace(t[Len(t)]) THEN TrimEnd(SubSeq(t, 1, Len(t) - 1)) ELSE t

\* String.prototype.trim
Trim(t) == TrimEnd(TrimStart(t))

\* JS truthiness of a string: the empty string is falsy
Truthy(t) == t # <<>>

(***************************************************************************)
(* The version-control repository the tool is started in.  A commit is     *)
(* [hash, date, parents]; parents are indices into the commit sequence and *)
(* the last commit is HEAD.  Commit dates grow along the history.          *)
(***************************************************************************)
HashName == <<"c1", "c2", "c3", "c4", "c5", "c6">>
TagName  == <<"v1", "v2", "v3", "v4", "v5", "v6">>

LinearRepo(n, tagged) ==
  [ inside  |-> TRUE,
    commits |-> [i \in 1..n |-> [hash |-> HashName[i], date |-> 2 * i,
                                 parents |-> IF i = 1 THEN {} ELSE {i - 1}]],
    tags    |-> IF tagged THEN [i \in 1..n |-> TagName[n + 1 - i]] ELSE <<>> ]

\* c2 and c3 are unrelated siblings, merged by c4; tags v3 (on c3), v2 (on c2)
ForkRepo ==
  [ inside  |-> TRUE,
    commits |-> << [hash |-> "c1", date |-> 2, parents |-> {}],
                   [hash |-> "c2", date |-> 3, parents |-> {1}],
                   [hash |-> "c3", date |-> 4, parents |-> {1}],
                   [hash |-> "c4", date |-> 5, parents |-> {2, 3}] >>,
    tags    |-> <<"v3", "v2">> ]

NoRepo == [inside |-> FALSE, commits |-> <<>>, tags |-> <<>>]

Repos == {NoRepo, ForkRepo}
           \cup {LinearRepo(n, tagged) : n \in 0..MaxCommits, tagged \in BOOLEAN}

\* timestamps the date parser can produce; 0 is its null result
Times == 1..(2 * MaxCommits + 1)
NullDate == 0

RECURSIVE Ancestors(_, _)
\* the commits reachable from commit i, i included
Ancestors(r, i) ==
  {i} \cup UNION {Ancestors(r, p) : p \in r.commits[i].parents}

ReachableFromHead(r) ==
  IF r.commits = <<>> THEN {} ELSE Ancestors(r, Len(r.commits))

IndexOf(r, h) == CHOOSE i \in 1..Len(r.commits) : r.commits[i].hash = h

RECURSIVE ByDateDesc(_, _)
ByDateDesc(r, S) ==
  IF S = {} THEN <<>>
  ELSE LET m == CHOOSE i \in S : \A j \in S : r.commits[j].date <= r.commits[i].date
       IN  <<r.commits[m].hash>> \o ByDateDesc(r, S \ {m})

FirstN(s, n) == IF Len(s) <= n THEN s ELSE SubSeq(s, 1, n)

\* git log --max-count=100: hashes of the newest commits, newest first
GitLog(r) == FirstN(ByDateDesc(r, ReachableFromHead(r)), LogLimit)

\* git rev-list --ancestry-path from..to | wc -l
AncestryPathCount(r, from, to) ==
  LET f == IndexOf(r, from)
      t == IndexOf(r, to)
  IN  Cardinality({c \in Ancestors(r, t) \ Ancestors(r, f) : f \in Ancestors(r, c)})

\* git rev-list -1 --before=T HEAD: the newest commit dated at or before T,
\* the empty string when there is none
RevListBefore(r, T) ==
  LET S == {i \in ReachableFromHead(r) : r.commits[i].date <= T}
  IN  IF S = {} THEN ""
      ELSE r.commits[CHOOSE i \in S :
                       \A j \in S : r.commits[j].date <= r.commits[i].date].hash

SeqRange(s) == {s[i] : i \in 1..Len(s)}

(***************************************************************************)
(* Range resolution.  Each operator is one select function applied to the  *)
(* answers the user gives; the result carries the Range or the error       *)
(* thrown, and the external calls made on the way.                         *)
(***************************************************************************)
Undefined == "undefined"
UndefRange == [from |-> Undefined, to |-> Undefined]

Returned(range, ev) == [err |-> "none", range |-> range, events |-> ev]
Threw(kind, ev)     == [err |-> kind, range |-> UndefRange, events |-> ev]

\* from === to
SameRevision(from, to) == from = to

\* mutant: a pair that is not in ancestry order is swapped
selectByCommitsReordering(r, from, to) ==
  LET all == GitLog(r)
  IN  IF Len(all) = 0 THEN Threw("NoCommitsFound", <<"git:log">>)
      ELSE IF SameRevision(from, to)
        THEN Threw("InvalidSelection", <<"git:log", "prompt:from", "prompt:to">>)
      ELSE LET ev == <<"git:log", "prompt:from", "prompt:to", "git:rev-list">>
           IN  IF AncestryPathCount(r, from, to) = 0
                 THEN Returned([from |-> to, to |-> from], ev)
                 ELSE Returned([from |-> from, to |-> to], ev)

selectByCommits(r, from, to) ==
  LET all == GitLog(r)
  IN  IF Len(all) = 0 THEN Threw("NoCommitsFound", <<"git:log">>)
      ELSE IF SameRevision(from, to)
        THEN Threw("InvalidSelection", <<"git:log", "prompt:from", "prompt:to">>)
      ELSE LET ev == <<"git:log", "prompt:from", "prompt:to", "git:rev-list">>
           IN  IF AncestryPathCount(r, from, to) = 0
                 THEN Returned([from |-> from, to |-> to], ev)
                 ELSE Returned([from |-> from, to |-> to], ev)

selectByTags(r, fromTag, toTag) ==
  LET lines == r.tags
  IN  IF Len(lines) = 0 THEN Threw("NoTagsFound", <<"git:for-each-ref">>)
      ELSE IF SameRevision(fromTag, toTag)
        THEN Threw("InvalidSelection",
                   <<"git:for-each-ref", "prompt:from", "prompt:to">>)
      ELSE Returned([from |-> fromTag, to |-> toTag],
                    <<"git:for-each-ref", "prompt:from", "prompt:to">>)

\* startParsed > endParsed: swap
SwapIfReversed(startParsed, endParsed) ==
  IF startParsed > endParsed
    THEN [start |-> endParsed, end |-> startParsed]
    ELSE [start |-> startParsed, end |-> endParsed]

selectByTimeRange(r, startParsed, endParsed) ==
  IF startParsed = NullDate \/ endParsed = NullDate
    THEN Threw("DateParseFailure", <<"prompt:dates">>)
  ELSE LET iv == SwapIfReversed(startParsed, endParsed)
           to == RevListBefore(r, iv.end)
           baseBeforeStart == RevListBefore(r, iv.start)
           ev == <<"prompt:dates", "git:rev-list", "git:rev-list">>
       IN  IF to = "" \/ baseBeforeStart = ""
             THEN Threw("NoRevisionForTimestamp", ev)
             ELSE Returned([from |-> baseBeforeStart, to |-> to], ev)

(***************************************************************************)
(* History collection.  The summary is the array of lines joined by "\n"; *)
(* a heading line is one token and NL is the joining newline.              *)
(***************************************************************************)
NL == "\n"
HGitHistory   == "# Git History"
HCommitLog    == "## Commit Log"
HChangedFiles == "## Changed Files (name-status)"
HDiffStats    == "## Diff Stats"
Headings == {HGitHistory, HCommitLog, HChangedFiles, HDiffStats}

NoCommits     == <<"(No commits)">>
NoFileChanges == <<"(No file changes)">>
NoStats       == <<"(No stats)">>

\* mutant: the placeholder is forgotten
TrimOnly(text, placeholder) == Trim(text)

\* text.trim() || placeholder
OrPlaceholder(text, placeholder) ==
  IF Truthy(Trim(text)) THEN Trim(text) ELSE placeholder

RECURSIVE Join(_)
\* lines.join('\n')
Join(lines) ==
  IF Len(lines) = 0 THEN <<>>
  ELSE IF Len(lines) = 1 THEN lines[1]
  ELSE lines[1] \o <<NL>> \o Join(Tail(lines))

collectGitHistoryText(logText, filesText, statsText) ==
  Join(<< <<HGitHistory>>,
          <<>>,
          <<HCommitLog>>,
          OrPlaceholder(logText, NoCommits),
          <<>>,
          <<HChangedFiles>>,
          OrPlaceholder(filesText, NoFileChanges),
          <<>>,
          <<HDiffStats>>,
          OrPlaceholder(statsText, NoStats) >>)

(***************************************************************************)
(* Changelog generation.  A response of the completion service is          *)
(* [status, body, hasContent, content]: body is what res.text() yields,    *)
(* hasContent says whether choices[0].message.content is present in the    *)
(* JSON and content is its value.                                          *)
(***************************************************************************)
Statuses == {200, 204, 404, 500}

\* mutant: only server errors count as failures
OkBelow500(status) == status < 500

\* Response.ok
IsOk(status) == 200 <= status /\ status <= 299

Bodies   == {<<>>, <<"a">>}
Contents == {<<>>, <<" ">>, <<"a">>, <<" ", "a">>}

Responses ==
  [status : Statuses, body : Bodies, hasContent : {FALSE}, content : {<<>>}]
  \cup
  [status : Statuses, body : {<<>>}, hasContent : {TRUE}, content : Contents]

NoResponse == [status |-> 0, body |-> <<>>, hasContent |-> FALSE, content |-> <<>>]

Keys == {<<>>, <<"a">>}

\* data?.choices?.[0]?.message?.content || ''
ContentOf(resp) ==
  IF resp.hasContent /\ Truthy(resp.content) THEN resp.content ELSE <<>>

\* mutant: the content is tested without trimming
IsEmptyUntrimmed(content) == ~Truthy(content)

\* if (!content.trim())
IsBlank(content) == ~Truthy(Trim(content))

NoError == [kind |-> "none", status |-> 0, body |-> <<>>]
ErrorOf(kind) == [kind |-> kind, status |-> 0, body |-> <<>>]

\* new Error(`Azure OpenAI error: ${res.status} ${res.statusText} - ${text}`)
CompletionServiceError(resp) ==
  [kind |-> "CompletionServiceError", status |-> resp.status, body |-> resp.body]

\* mutant: the credential check is skipped
NeverMissingKey(k) == FALSE

\* if (!key)
MissingKey(k) == ~Truthy(k)

\* The whole of callAzureOpenAI: envKey is process.env.OPENAI_API_KEY, typed
\* is what the user enters at the masked prompt, resp is what fetch resolves to.
callAzureOpenAI(envKey, typed, resp) ==
  LET asked == ~Truthy(envKey)
      k     == IF asked THEN typed ELSE envKey
      ev    == IF asked THEN <<"prompt:key">> ELSE <<>>
  IN  IF MissingKey(k)
        THEN [error |-> ErrorOf("MissingCredential"), content |-> <<>>,
              key |-> k, res |-> NoResponse, events |-> ev]
      ELSE IF ~IsOk(resp.status)
        THEN [error |-> CompletionServiceError(resp), content |-> <<>>,
              key |-> k, res |-> resp, events |-> ev \o <<"http:post">>]
      ELSE IF IsBlank(ContentOf(resp))
        THEN [error |-> ErrorOf("EmptyCompletion"), content |-> <<>>,
              key |-> k, res |-> resp, events |-> ev \o <<"http:post">>]
      ELSE [error |-> NoError, content |-> ContentOf(resp),
            key |-> k, res |-> resp, events |-> ev \o <<"http:post">>]

(***************************************************************************)
(* The site directory.  A file is [exists, content].                       *)
(***************************************************************************)
Absent == [exists |-> FALSE, content |-> <<>>]
File(content) == [exists |-> TRUE, content |-> content]

DefaultShell == <<"<!DOCTYPE html>">>
EditedShell  == <<"<!-- edited -->">>

\* mutant: index.html is written on every call
AlwaysWriteShell(index) == File(DefaultShell)

\* if (!fs.existsSync(indexHtmlPath)) fs.writeFileSync(indexHtmlPath, html)
WriteShellIfAbsent(index) == IF ~index.exists THEN File(DefaultShell) ELSE index

\* mutant: the site's README.md gets the trimmed text
createDocsifySiteTrimmed(fs, markdownContent) ==
  [fs EXCEPT !.siteDir = TRUE,
             !.readme  = File(Trim(markdownContent)),
             !.index   = WriteShellIfAbsent(fs.index)]

\* fs is [changelog, siteDir, readme, index]
createDocsifySite(fs, markdownContent) ==
  [fs EXCEPT !.siteDir = TRUE,
             !.readme  = File(markdownContent),
             !.index   = WriteShellIfAbsent(fs.index)]

createDocsifySiteEvents(fs) ==
  (IF ~fs.siteDir THEN <<"mkdir:site">> ELSE <<>>)
    \o <<"write:readme">>
    \o (IF ~fs.index.exists THEN <<"write:index">> ELSE <<>>)

(***************************************************************************)
(* The state of one run of main() and of the directory it runs in.         *)
(***************************************************************************)
VARIABLES
  repo,              \* the repository of the working directory
  envKey,            \* process.env.OPENAI_API_KEY
  fs,                \* CHANGELOG.generated.md and .diffgen_site
  pc,                \* where main() is
  mode,              \* the answer to the mode prompt
  picked,            \* selectByTags, selectByCommits: the two answers
  answers,           \* selectByTimeRange: the two parsed dates
  range,             \* main: range
  queryOut,          \* collectGitHistoryText: logText, filesText, statsText
  historyMarkdown,   \* main: historyMarkdown
  key,               \* callAzureOpenAI: key
  res,               \* callAzureOpenAI: res
  changelogMarkdown, \* main: changelogMarkdown
  child,             \* the docsify child process
  error,             \* the error that reached main().catch or the repository check
  warning,           \* what the child's 'error' handler logged
  exitCode,          \* the exit status, once pc = "exited"
  events             \* the external calls of this run, in order

vars == <<repo, envKey, fs, pc, mode, picked, answers, range, queryOut,
          historyMarkdown, key, res, changelogMarkdown, child, error, warning, exitCode, events>>

CleanFs == [changelog |-> Absent, siteDir |-> FALSE, readme |-> Absent,
            index |-> Absent]
\* a site left by an earlier run whose index.html the user has edited
CustomisedFs == [changelog |-> File(<<"a">>), siteDir |-> TRUE,
                 readme |-> File(<<"a">>), index |-> File(EditedShell)]
InitialFs == {CleanFs, CustomisedFs}

NoPicks    == [from |-> Undefined, to |-> Undefined]
NoAnswers  == [start |-> NullDate, end |-> NullDate]
NoQueryOut == [log |-> <<>>, files |-> <<>>, stats |-> <<>>]

\* outputs of the history queries in a run of the pipeline
QueryOutputs == {<<>>, <<" ">>, <<" ", "a">>}

Modes == {"tags", "commits", "time"}

StartOfRun ==
  /\ pc = "start"
  /\ mode = Undefined
  /\ picked = NoPicks
  /\ answers = NoAnswers
  /\ range = UndefRange
  /\ queryOut = NoQueryOut
  /\ historyMarkdown = <<>>
  /\ key = <<>>
  /\ res = NoResponse
  /\ changelogMarkdown = <<>>
  /\ child = "none"
  /\ error = NoError
  /\ warning = "none"
  /\ exitCode = 0
  /\ events = <<>>

Init ==
  /\ repo \in Repos
  /\ envKey \in Keys
  /\ fs \in InitialFs
  /\ StartOfRun

\* process.exitCode when the event loop drains
SuccessStatus == 0

\* mutant: the catch handler exits with status 0
ExitsWithZero == SuccessStatus

\* process.exit(1)
FailureStatus == 1

\* main().catch: console.error(err.message); process.exit(1)
Fail(err, ev) ==
  /\ error' = err
  /\ exitCode' = FailureStatus
  /\ events' = events \o ev \o <<"stderr:error">>
  /\ pc' = "exited"

\* mutant: the repository check always passes
AlwaysInsideWorkTree(r) == TRUE

\* git rev-parse --is-inside-work-tree succeeds
ensureGitRepository(r) == r.inside

\* main, lines 259-265
EnsureGitRepository ==
  /\ pc = "start"
  /\ IF ~ensureGitRepository(repo)
       THEN Fail(ErrorOf("NotAVersionControlRepository"), <<"git:rev-parse">>)
       ELSE /\ events' = events \o <<"git:rev-parse", "git:show-toplevel">>
            /\ pc' = "mode"
            /\ UNCHANGED <<error, exitCode>>
  /\ UNCHANGED <<repo, envKey, fs, mode, picked, answers, range, queryOut, historyMarkdown,
                 key, res, changelogMarkdown, child, warning>>

\* main, lines 267-278
ChooseMode ==
  /\ pc = "mode"
  /\ \E m \in Modes : mode' = m
  /\ events' = events \o <<"prompt:mode">>
  /\ pc' = "select"
  /\ UNCHANGED <<repo, envKey, fs, picked, answers, range, queryOut, historyMarkdown,
                 key, res, changelogMarkdown, child, error, warning, exitCode>>

\* range = await selectBy...(git)
Resolved(sel) ==
  IF sel.err = "none"
    THEN /\ range' = sel.range
         /\ events' = events \o sel.events
         /\ pc' = "collect"
         /\ UNCHANGED <<error, exitCode>>
    ELSE /\ Fail(ErrorOf(sel.err), sel.events)
         /\ UNCHANGED range

\* what a list prompt lets the user pick; no prompt is shown for an empty list
Pick(choices) == IF choices = {} THEN {Undefined} ELSE choices

SelectByTags ==
  /\ pc = "select" /\ mode = "tags"
  /\ \E fromTag \in Pick(SeqRange(repo.tags)), toTag \in Pick(SeqRange(repo.tags)) :
       /\ picked' = [from |-> fromTag, to |-> toTag]
       /\ Resolved(selectByTags(repo, fromTag, toTag))
  /\ UNCHANGED <<repo, envKey, fs, mode, answers, queryOut, historyMarkdown,
                 key, res, changelogMarkdown, child, warning>>

SelectByCommits ==
  /\ pc = "select" /\ mode = "commits"
  /\ \E from \in Pick(SeqRange(GitLog(repo))), to \in Pick(SeqRange(GitLog(repo))) :
       /\ picked' = [from |-> from, to |-> to]
       /\ Resolved(selectByCommits(repo, from, to))
  /\ UNCHANGED <<repo, envKey, fs, mode, answers, queryOut, historyMarkdown,
                 key, res, changelogMarkdown, child, warning>>

SelectByTimeRange ==
  /\ pc = "select" /\ mode = "time"
  /\ \E startParsed \in Times \cup {NullDate}, endParsed \in Times \cup {NullDate} :
       /\ answers' = [start |-> startParsed, end |-> endParsed]
       /\ Resolved(selectByTimeRange(repo, startParsed, endParsed))
  /\ UNCHANGED <<repo, envKey, fs, mode, picked, queryOut, historyMarkdown,
                 key, res, changelogMarkdown, child, warning>>

\* const historyMarkdown = collectGitHistoryText(range); the answers of the
\* select function are out of scope by now
CollectGitHistoryText ==
  /\ pc = "collect"
  /\ \E logText \in QueryOutputs, filesText \in QueryOutputs, statsText \in QueryOutputs :
       /\ queryOut' = [log |-> logText, files |-> filesText, stats |-> statsText]
       /\ historyMarkdown' = collectGitHistoryText(logText, filesText, statsText)
  /\ events' = events \o <<"git:log-range", "git:diff-name-status", "git:diff-stat">>
  /\ picked' = NoPicks
  /\ answers' = NoAnswers
  /\ pc' = "generate"
  /\ UNCHANGED <<repo, envKey, fs, mode, range, key, res, changelogMarkdown, child,
                 error, warning, exitCode>>

\* const changelogMarkdown = await callAzureOpenAI(historyMarkdown)
CallAzureOpenAI ==
  /\ pc = "generate"
  /\ \E typed \in Keys, resp \in Responses :
       LET out == callAzureOpenAI(envKey, typed, resp)
       IN  /\ key' = out.key
           /\ res' = out.res
           /\ IF out.error.kind = "none"
                THEN /\ changelogMarkdown' = out.content
                     /\ events' = events \o out.events
                     /\ pc' = "write"
                     /\ UNCHANGED <<error, exitCode>>
                ELSE /\ Fail(out.error, out.events)
                     /\ UNCHANGED changelogMarkdown
  /\ queryOut' = NoQueryOut
  /\ UNCHANGED <<repo, envKey, fs, mode, picked, answers, range, historyMarkdown,
                 child, warning>>

\* main, lines 292-294
WriteChangelog ==
  /\ pc = "write"
  /\ fs' = [fs EXCEPT !.changelog = File(changelogMarkdown)]
  /\ events' = events \o <<"write:changelog">>
  /\ pc' = "site"
  /\ UNCHANGED <<repo, envKey, mode, picked, answers, range, queryOut, historyMarkdown,
                 key, res, changelogMarkdown, child, error, warning, exitCode>>

\* const siteDir = createDocsifySite(repoRoot, changelogMarkdown)
CreateDocsifySite ==
  /\ pc = "site"
  /\ fs' = createDocsifySite(fs, changelogMarkdown)
  /\ events' = events \o createDocsifySiteEvents(fs)
  /\ pc' = "serve"
  /\ UNCHANGED <<repo, envKey, mode, picked, answers, range, queryOut, historyMarkdown,
                 key, res, changelogMarkdown, child, error, warning, exitCode>>

\* serveDocsify(siteDir, 3000): spawn either starts the server or fails
ServeDocsify ==
  /\ pc = "serve"
  /\ \E started \in BOOLEAN : child' = IF started THEN "running" ELSE "failed"
  /\ events' = events \o <<"spawn:docsify">>
  /\ pc' = "serving"
  /\ UNCHANGED <<repo, envKey, fs, mode, picked, answers, range, queryOut, historyMarkdown,
                 key, res, changelogMarkdown, error, warning, exitCode>>

\* child.on('error', ...): log the failure and a hint; nothing else keeps the
\* process alive, so it ends
ChildError ==
  /\ pc = "serving" /\ child = "failed"
  /\ warning' = "ServerSpawnFailure"
  /\ events' = events \o <<"stderr:hint">>
  /\ exitCode' = SuccessStatus
  /\ pc' = "exited"
  /\ UNCHANGED <<repo, envKey, fs, mode, picked, answers, range, queryOut, historyMarkdown,
                 key, res, changelogMarkdown, child, error>>

\* the server stops; main() has returned, so the process ends
ChildExit ==
  /\ pc = "serving" /\ child = "running"
  /\ child' = "stopped"
  /\ exitCode' = SuccessStatus
  /\ pc' = "exited"
  /\ UNCHANGED <<repo, envKey, fs, mode, picked, answers, range, queryOut, historyMarkdown,
                 key, res, changelogMarkdown, error, warning, events>>

\* the tool is started again in the same directory
Restart ==
  /\ pc = "exited"
  /\ pc' = "start"
  /\ mode' = Undefined
  /\ picked' = NoPicks
  /\ answers' = NoAnswers
  /\ range' = UndefRange
  /\ queryOut' = NoQueryOut
  /\ historyMarkdown' = <<>>
  /\ key' = <<>>
  /\ res' = NoResponse
  /\ changelogMarkdown' = <<>>
  /\ child' = "none"
  /\ error' = NoError
  /\ warning' = "none"
  /\ exitCode' = 0
  /\ events' = <<>>
  /\ UNCHANGED <<repo, envKey, fs>>

Next ==
  \/ EnsureGitRepository
  \/ ChooseMode
  \/ SelectByTags
  \/ SelectByCommits
  \/ SelectByTimeRange
  \/ CollectGitHistoryText
  \/ CallAzureOpenAI
  \/ WriteChangelog
  \/ CreateDocsifySite
  \/ ServeDocsify
  \/ ChildError
  \/ ChildExit
  \/ Restart

Spec == Init /\ [][Next]_vars

(***************************************************************************)
(* History collection on its own: the three query outputs are given, and   *)
(* collectGitHistoryText is applied to them.                               *)
(***************************************************************************)
InitCollect ==
  /\ repo = LinearRepo(MaxCommits, TRUE)
  /\ envKey = <<>>
  /\ fs = CleanFs
  /\ pc = "collect"
  /\ mode = "tags"
  /\ picked = NoPicks
  /\ answers = NoAnswers
  /\ range = [from |-> "v1", to |-> "v2"]
  /\ queryOut \in [log : TextsUpTo(MaxTextLen), files : TextsUpTo(MaxTextLen),
                   stats : TextsUpTo(MaxTextLen)]
  /\ historyMarkdown = <<>>
  /\ key = <<>>
  /\ res = NoResponse
  /\ changelogMarkdown = <<>>
  /\ child = "none"
  /\ error = NoError
  /\ warning = "none"
  /\ exitCode = 0
  /\ events = <<>>

CollectQueried ==
  /\ pc = "collect"
  /\ historyMarkdown' =
       collectGitHistoryText(queryOut.log, queryOut.files, queryOut.stats)
  /\ events' = events \o <<"git:log-range", "git:diff-name-status", "git:diff-stat">>
  /\ pc' = "generate"
  /\ UNCHANGED <<repo, envKey, fs, mode, picked, answers, range, queryOut, key, res,
                 changelogMarkdown, child, error, warning, exitCode>>

SpecCollect == InitCollect /\ [][CollectQueried]_vars

(***************************************************************************)
(* Helpers of the properties.                                              *)
(***************************************************************************)
Occurs(e) == \E i \in 1..Len(events) : events[i] = e
Count(e) == Cardinality({i \in 1..Len(events) : events[i] = e})

DateOf(h) == repo.commits[IndexOf(repo, h)].date

RangeResolved == range # UndefRange

FatalErrors ==
  {"NotAVersionControlRepository", "NoTagsFound", "NoCommitsFound",
   "InvalidSelection", "DateParseFailure", "NoRevisionForTimestamp",
   "MissingCredential", "CompletionServiceError", "EmptyCompletion"}

CollectEvents == {"git:log-range", "git:diff-name-status", "git:diff-stat"}
WriteEvents   == {"write:changelog", "mkdir:site", "write:readme", "write:index"}
PromptEvents  == {"prompt:mode", "prompt:from", "prompt:to", "prompt:dates",
                  "prompt:key"}

(***************************************************************************)
(* C1: in every strategy, a resolution that arrives at identical revisions *)
(* for from and to fails with InvalidSelection, so no Range with           *)
(* from = to is ever returned or passed to history collection.             *)
(* The time-interval strategy breaks it.                                   *)
(***************************************************************************)
C1_NoRangeWithEqualEnds ==
  RangeResolved => range.from # range.to

(***************************************************************************)
(* C2: in the time-interval strategy a returned Range has from strictly    *)
(* earlier than to, from being the latest commit at or before the earlier  *)
(* timestamp and to the latest commit at or before the later one.          *)
(* It fails where C1 fails: both timestamps at the same boundary commit.   *)
(***************************************************************************)
C2_TimeRangeStrictlyIncreasing ==
  (mode = "time" /\ pc = "collect") =>
    LET lo == IF answers.start <= answers.end THEN answers.start ELSE answers.end
        hi == IF answers.start <= answers.end THEN answers.end ELSE answers.start
    IN  /\ DateOf(range.from) < DateOf(range.to)
        /\ DateOf(range.from) <= lo
        /\ DateOf(range.to) <= hi
        /\ \A i \in 1..Len(repo.commits) :
             /\ repo.commits[i].date <= lo => repo.commits[i].date <= DateOf(range.from)
             /\ repo.commits[i].date <= hi => repo.commits[i].date <= DateOf(range.to)

(***************************************************************************)
(* C3: the exit status is non-zero exactly when one of the nine fatal      *)
(* errors occurred; a fatal error ends the run at the step that raised it, *)
(* no later pipeline step having run; a failed server spawn is only logged *)
(* with a hint and leaves the exit status zero.                            *)
(***************************************************************************)
\* the external calls that can only have happened after the step raising kind
LaterSteps(kind) ==
  IF kind \in {"CompletionServiceError", "EmptyCompletion"}
    THEN WriteEvents \cup {"spawn:docsify"}
  ELSE IF kind = "MissingCredential"
    THEN WriteEvents \cup {"spawn:docsify", "http:post"}
  ELSE IF kind = "NotAVersionControlRepository"
    THEN WriteEvents \cup {"spawn:docsify", "http:post"} \cup CollectEvents
           \cup PromptEvents
           \cup {"git:show-toplevel", "git:log", "git:for-each-ref", "git:rev-list"}
  ELSE WriteEvents \cup {"spawn:docsify", "http:post", "prompt:key"}
         \cup CollectEvents

C3_ExitStatus ==
  /\ error.kind \in FatalErrors \cup {"none"}
  /\ error.kind # "none" =>
       /\ pc = "exited"
       /\ events[Len(events)] = "stderr:error"
       /\ \A e \in LaterSteps(error.kind) : ~Occurs(e)
  /\ pc = "exited" => (exitCode # 0 <=> error.kind \in FatalErrors)
  /\ warning # "none" =>
       /\ warning = "ServerSpawnFailure"
       /\ Occurs("stderr:hint")
       /\ error.kind = "none"
       /\ pc = "exited" /\ exitCode = 0

\* a run whose server could not be spawned
C3_Witness ==
  pc = "exited" /\ warning = "ServerSpawnFailure" /\ child = "failed" /\ exitCode = 0

(***************************************************************************)
(* C4: outside a version-controlled directory the run fails with           *)
(* NotAVersionControlRepository and a non-zero exit status, and the only   *)
(* external call it has made is the repository check: no prompt, no other  *)
(* version-control query, no HTTP request, no file write.                  *)
(***************************************************************************)
C4_FailsBeforeAnyPrompt ==
  ~repo.inside =>
    /\ pc \in {"start", "exited"}
    /\ fs \in InitialFs
    /\ pc = "start" => events = <<>>
    /\ pc = "exited" =>
         /\ error.kind = "NotAVersionControlRepository"
         /\ exitCode # 0
         /\ events = <<"git:rev-parse", "stderr:error">>

C4_Witness ==
  ~repo.inside /\ pc = "exited" /\ exitCode = 1

(***************************************************************************)
(* C5: createDocsifySite leaves README.md holding exactly the Markdown it  *)
(* was given, writes the default index.html only when there was none, and  *)
(* an index.html that exists keeps its content through every step of every *)
(* run; called again with what README.md already holds, it changes nothing.*)
(***************************************************************************)
C5_SiteWriterIdempotent ==
  [][ /\ pc = "site" =>
           /\ fs'.readme = File(changelogMarkdown)
           /\ fs'.siteDir
           /\ fs'.changelog = fs.changelog
           /\ ~fs.index.exists => fs'.index = File(DefaultShell)
           /\ Len(events') > Len(events)
           /\ (\E i \in (Len(events) + 1)..Len(events') : events'[i] = "write:index")
                <=> ~fs.index.exists
           /\ (fs.readme = File(changelogMarkdown) /\ fs.index.exists) => fs' = fs
      /\ fs.index.exists => fs'.index = fs.index
      /\ pc # "site" => (fs'.readme = fs.readme /\ fs'.index = fs.index)
    ]_vars

\* about to be called a second time with the payload an earlier call wrote,
\* on a site whose index.html was edited
C5_Witness ==
  /\ pc = "site"
  /\ changelogMarkdown = <<" ", "a">>
  /\ fs.readme = File(<<" ", "a">>)
  /\ fs.index = File(EditedShell)

(***************************************************************************)
(* C6: the history text is the title and exactly three headed sections in  *)
(* the order Commit Log, Changed Files (name-status), Diff Stats; each     *)
(* section body is the query output without its leading and trailing       *)
(* whitespace, or the section's own placeholder when nothing is left of    *)
(* it; no body is empty and no section depends on another's output.        *)
(***************************************************************************)
HeadingsOf(text) == SelectSeq(text, LAMBDA c : c \in Headings)

PosOf(text, h) == CHOOSE i \in 1..Len(text) : text[i] = h

\* the lines between heading h and the blank line before heading next
BodyBetween(text, h, next) ==
  SubSeq(text, PosOf(text, h) + 2, PosOf(text, next) - 3)

BodyAfter(text, h) == SubSeq(text, PosOf(text, h) + 2, Len(text))

AllSpace(t) == \A i \in 1..Len(t) : IsSpace(t[i])

\* body is out with the whitespace at both ends removed
IsTrimOf(body, out) ==
  /\ body # <<>>
  /\ ~IsSpace(body[1]) /\ ~IsSpace(body[Len(body)])
  /\ \E i \in 0..Len(out) :
       /\ i + Len(body) <= Len(out)
       /\ SubSeq(out, i + 1, i + Len(body)) = body
       /\ AllSpace(SubSeq(out, 1, i))
       /\ AllSpace(SubSeq(out, i + Len(body) + 1, Len(out)))

IsSectionBody(body, out, placeholder) ==
  /\ body # <<>>
  /\ IF AllSpace(out) THEN body = placeholder ELSE IsTrimOf(body, out)

C6_ThreeSections ==
  pc = "generate" =>
    /\ HeadingsOf(historyMarkdown)
         = <<HGitHistory, HCommitLog, HChangedFiles, HDiffStats>>
    /\ historyMarkdown[1] = HGitHistory
    /\ IsSectionBody(BodyBetween(historyMarkdown, HCommitLog, HChangedFiles),
                     queryOut.log, NoCommits)
    /\ IsSectionBody(BodyBetween(historyMarkdown, HChangedFiles, HDiffStats),
                     queryOut.files, NoFileChanges)
    /\ IsSectionBody(BodyAfter(historyMarkdown, HDiffStats),
                     queryOut.stats, NoStats)

\* an empty log, whitespace-only file list and stats that need trimming
C6_Witness ==
  /\ pc = "generate"
  /\ queryOut = [log |-> <<>>, files |-> <<" ">>, stats |-> <<" ", "a">>]
  /\ historyMarkdown =
       <<HGitHistory, NL, NL, HCommitLog, NL, "(No commits)", NL, NL,
         HChangedFiles, NL, "(No file changes)", NL, NL, HDiffStats, NL, "a">>

(***************************************************************************)
(* C7: every response whose status is not 2xx, whatever its body, makes    *)
(* the run fail with CompletionServiceError carrying that status and that  *)
(* body; no text is returned and nothing is written.                       *)
(***************************************************************************)
Posted == Occurs("http:post")

Is2xx(status) == status \in 200..299

C7_NonSuccessFails ==
  (Posted /\ ~Is2xx(res.status)) =>
    /\ error.kind = "CompletionServiceError"
    /\ error.status = res.status
    /\ error.body = res.body
    /\ changelogMarkdown = <<>>
    /\ pc = "exited" /\ exitCode # 0
    /\ \A e \in WriteEvents : ~Occurs(e)

C7_Witness ==
  /\ Posted /\ res.status = 404 /\ res.body = <<"a">>
  /\ error = [kind |-> "CompletionServiceError", status |-> 404, body |-> <<"a">>]

(***************************************************************************)
(* C8: a 2xx response whose content is missing, empty or whitespace-only   *)
(* makes the run fail with EmptyCompletion; any other 2xx response yields  *)
(* its content unmodified.                                                 *)
(***************************************************************************)
C8_EmptyCompletionOrVerbatim ==
  (Posted /\ Is2xx(res.status)) =>
    IF ~res.hasContent \/ AllSpace(res.content)
      THEN /\ error.kind = "EmptyCompletion"
           /\ changelogMarkdown = <<>>
           /\ pc = "exited" /\ exitCode # 0
      ELSE /\ error.kind = "none"
           /\ changelogMarkdown = res.content

\* content with leading whitespace is returned as it came
C8_Witness ==
  /\ Posted /\ res.status = 204 /\ res.content = <<" ", "a">>
  /\ changelogMarkdown = <<" ", "a">>
  /\ pc = "write"

StageOf(e) ==
  IF e \in {"git:rev-parse", "git:show-toplevel", "prompt:mode"} THEN 0
  ELSE IF e \in {"git:log", "git:for-each-ref", "prompt:from", "prompt:to",
                 "prompt:dates", "git:rev-list"} THEN 1
  ELSE IF e \in CollectEvents THEN 2
  ELSE IF e \in {"prompt:key", "http:post"} THEN 3
  ELSE IF e \in WriteEvents THEN 4
  ELSE IF e = "spawn:docsify" THEN 5
  ELSE 6

C10_SinglePass ==
  /\ \A i, j \in 1..Len(events) : i < j => StageOf(events[i]) <= StageOf(events[j])
  /\ \A i, j \in 1..Len(events) :
       (i < j /\ events[i] = events[j]) =>
         (events[i] = "git:rev-list" /\ mode = "time" /\ j = i + 1)
  /\ Count("http:post") <= 1
  /\ (\E e \in CollectEvents : Occurs(e)) =>
       (RangeResolved /\ \A e \in CollectEvents : Occurs(e))
  /\ Posted =>
       /\ \A e \in CollectEvents : Occurs(e)
       /\ historyMarkdown # <<>>
       /\ key # <<>>
  /\ (\E e \in WriteEvents : Occurs(e)) =>
       (Posted /\ error.kind = "none" /\ changelogMarkdown # <<>>)
  /\ Occurs("spawn:docsify") =>
       /\ Occurs("write:changelog") /\ Occurs("write:readme")
       /\ fs.changelog.exists /\ fs.readme.exists /\ fs.index.exists
  /\ error.kind # "none" => pc = "exited"

C10_Witness ==
  /\ pc = "serving"
  /\ mode = "time"
  /\ events = <<"git:rev-parse", "git:show-toplevel", "prompt:mode", "prompt:dates",
                "git:rev-list", "git:rev-list", "git:log-range",
                "git:diff-name-status", "git:diff-stat", "prompt:key", "http:post",
                "write:changelog", "mkdir:site", "write:readme", "write:index",
                "spawn:docsify">>

(***************************************************************************)
(* C11: the output files are touched only after a successful completion.   *)
(* Only the two write steps of main change a file, and they run only with  *)
(* the text the completion service returned at hand; a run that ends with  *)
(* a fatal error has made no write step, so CHANGELOG.generated.md,        *)
(* README.md and index.html are as they were when it started; a run that   *)
(* spawns the server has CHANGELOG.generated.md and README.md holding      *)
(* exactly the returned text.                                              *)
(***************************************************************************)
C11_FilesOnlyAfterCompletion ==
  [][ /\ pc \notin {"write", "site"} => fs' = fs
      /\ pc \in {"write", "site"} =>
           /\ error.kind = "none"
           /\ Posted /\ res.hasContent
           /\ changelogMarkdown = res.content
      /\ pc = "write" =>
           fs' = [fs EXCEPT !.changelog = File(res.content)]
      /\ error'.kind # "none" =>
           /\ \A e \in WriteEvents : \A i \in 1..Len(events') : events'[i] # e
           /\ fs' = fs
      /\ pc = "serve" =>
           /\ fs.changelog = File(res.content)
           /\ fs.readme = File(res.content)
           /\ fs.index.exists
    ]_vars

\* a run that failed at the completion request, on files an earlier run wrote
\* from the completion text " a"
C11_Witness ==
  /\ pc = "exited"
  /\ error.kind = "CompletionServiceError"
  /\ fs.changelog = File(<<" ", "a">>)
  /\ fs.readme = File(<<" ", "a">>)
  /\ \A e \in WriteEvents : ~Occurs(e)

====
